---- MODULE Spec2Model ----
(***************************************************************************)
(* Checkout and fulfillment core of the marketplace API.                   *)
(*                                                                         *)
(* The database tables (Product, Cart, CartItem, Order, OrderItem) are the *)
(* state.  Every HTTP request is a process held in a slot of req: its      *)
(* first step performs the handler's reads and checks (answering at once   *)
(* when a check fails), its second step performs the handler's write or    *)
(* its prisma.$transaction.  Steps of different requests interleave.       *)
(***************************************************************************)
EXTENDS Integers, Sequences, FiniteSets, TLC

\* ------------------------------------------------------------------ bounds
MaxAccepted == 5
MaxSelected == 2
MaxWrites == 8

Slots == {1, 2}
Users == {1, 2, 3}
Buyers == {2, 3}
Shops == {1, 2}
Products == {1, 2}
Qtys == {1}
Prices == {150}

\* Date.now().toString().slice(-8): the clock value modulo 10^8.
CodeModulus == 100000000
Times == {0, 1, CodeModulus}
Addresses == {"Jl. Sudirman No. 1 / JNE REG"}
Stars == {1, 5}

\* --------------------------------------------------------- static relations
\* Shop.ownerId: shop s is owned by user s; user 3 owns no shop.
ShopOwner(s) == s

\* Product.shopId: product p belongs to shop p.
ProductShop(p) == p

FulfillmentStatus == {"NEW", "CONFIRMED", "SHIPPED", "COMPLETED", "CANCELLED"}
SELLER_UPDATE_STATUSES == {"CONFIRMED", "SHIPPED", "CANCELLED"}

VARIABLES
    product,      \* Product rows: [stock, soldCount, isActive, price, rating,
                  \* reviewCount]; deleted marks a row that was removed
    carts,        \* users that have a Cart row (cart id = user id)
    cartItems,    \* CartItem rows: [id, cartId, productId, qty, priceSnapshot]
    nextCartItemId,
    orders,       \* Order rows, id = index: [userId, paymentStatus, totalAmount]
    orderItems,   \* OrderItem rows, id = index
    reviews,      \* Review rows: [id, userId, productId, star]
    req,          \* requests in flight / answered, per slot
    nreq          \* number of requests accepted (past their checks)

vars == <<product, carts, cartItems, nextCartItemId, orders, orderItems, reviews, req, nreq>>
db == <<product, carts, cartItems, nextCartItemId, orders, orderItems, reviews>>

Idle ==
    [op |-> "idle", pc |-> "idle", user |-> 0, id |-> 0, qty |-> 0, to |-> "",
     sel |-> {}, snap |-> {}, res |-> "none", n |-> 0]

\* The seeded products: stock p, price 100 p, no sale and no review yet.
SeedProducts ==
    [p \in Products |->
        [stock |-> p, soldCount |-> 0, isActive |-> TRUE, price |-> 100 * p,
         rating |-> 0, reviewCount |-> 0, deleted |-> FALSE]]

Init ==
    /\ product = SeedProducts
    /\ reviews = {}
    /\ carts = {}
    /\ cartItems = {}
    /\ nextCartItemId = 1
    /\ orders = <<>>
    /\ orderItems = <<>>
    /\ req = [s \in Slots |-> Idle]
    /\ nreq = 0

\* ------------------------------------------------------------------ helpers
\* The answer of a request stays in its slot for one state; Deliver hands it
\* to the client and frees the slot before any other step is taken.
Answered == \E s \in Slots : req[s].pc = "done"

Free(s) == req[s].pc = "idle"

\* A new request takes the lowest free slot; accepted says whether it passes
\* its checks (only accepted requests count against MaxAccepted).
CanStart(s, accepted) ==
    /\ ~Answered
    /\ accepted => nreq < MaxAccepted
    /\ Free(s)
    /\ \A t \in Slots : t < s => ~Free(t)

Respond(s, r, result, count) ==
    [req EXCEPT ![s] = [r EXCEPT !.pc = "done", !.res = result, !.n = count]]

Pend(s, r) == [req EXCEPT ![s] = r]

\* Slot s holds a request of kind op waiting at pc.
At(s, op, pc) == ~Answered /\ req[s].op = op /\ req[s].pc = pc

Deliver(s) ==
    /\ req[s].pc = "done"
    /\ req' = [req EXCEPT ![s] = Idle]
    /\ UNCHANGED <<product, carts, cartItems, nextCartItemId, orders, orderItems, nreq, reviews>>

RECURSIVE SortById(_)
SortById(S) ==
    IF S = {} THEN <<>>
    ELSE LET m == CHOOSE x \in S : \A y \in S : x.id <= y.id
         IN  <<m>> \o SortById(S \ {m})

RECURSIVE SumQty(_)
SumQty(S) ==
    IF S = {} THEN 0
    ELSE LET x == CHOOSE y \in S : TRUE IN x.qty + SumQty(S \ {x})

RECURSIVE SumAmount(_)
SumAmount(S) ==
    IF S = {} THEN 0
    ELSE LET x == CHOOSE y \in S : TRUE
         IN  x.qty * x.priceSnapshot + SumAmount(S \ {x})

CartItemsOf(cartId) == {it \in cartItems : it.cartId = cartId}

\* ------------------------------------------------------------- Cart Store
\* cart.js POST /items, up to the stock check: product lookup, cart upsert,
\* lookup of an existing item of the same product, desired quantity.
ExistingItem(u, p) ==
    LET same == {it \in CartItemsOf(u) : it.productId = p}
    IN  IF same = {} THEN {} ELSE {SortById(same)[1]}

ExistingQty(u, p) == SumQty(ExistingItem(u, p))

\* The product row is found and active (!product || !product.isActive fails).
Available(p) == ~product[p].deleted /\ product[p].isActive

AddItemCheck(p, exQty, q) ==
    IF ~Available(p) THEN "ProductUnavailable"
    ELSE IF exQty + q > product[p].stock THEN "InsufficientStock"
    ELSE "OK"

AddItemRead(s, u, p, q) ==
    /\ CanStart(s, AddItemCheck(p, ExistingQty(u, p), q) = "OK")
    /\ LET r == [Idle EXCEPT !.op = "addItem", !.user = u, !.id = p, !.qty = q]
           existing == ExistingItem(u, p)
           exQty == ExistingQty(u, p)
           exId == IF existing = {} THEN 0 ELSE (CHOOSE x \in existing : TRUE).id
           chk == AddItemCheck(p, exQty, q)
       IN  /\ carts' = IF Available(p) THEN carts \cup {u} ELSE carts
           /\ IF chk # "OK"
              THEN req' = Respond(s, r, chk, 0) /\ nreq' = nreq
              ELSE nreq' = nreq + 1 /\ req' = Pend(s,
                       [r EXCEPT !.pc = "write",
                                 !.snap = {[id |-> exId, productId |-> p,
                                            qty |-> exQty + q,
                                            priceSnapshot |-> product[p].price,
                                            price |-> product[p].price]}])
    /\ UNCHANGED <<product, cartItems, nextCartItemId, orders, orderItems, reviews>>

\* cart.js POST /items, the write: update the existing item or create one.
\* Updating an item that was deleted meanwhile throws (answer 500).
AddItemWrite(s) ==
    /\ At(s, "addItem", "write")
    /\ LET w == CHOOSE x \in req[s].snap : TRUE
           u == req[s].user
       IN  IF w.id # 0
           THEN IF \E it \in cartItems : it.id = w.id
                THEN /\ cartItems' = {IF it.id = w.id
                                      THEN [it EXCEPT !.qty = w.qty,
                                                      !.priceSnapshot = w.priceSnapshot]
                                      ELSE it : it \in cartItems}
                     /\ req' = Respond(s, req[s], "OK", 0)
                     /\ UNCHANGED nextCartItemId
                ELSE /\ req' = Respond(s, req[s], "Failed", 0)
                     /\ UNCHANGED <<cartItems, nextCartItemId>>
           ELSE /\ cartItems' = cartItems \cup
                       {[id |-> nextCartItemId, cartId |-> u, productId |-> w.productId,
                         qty |-> req[s].qty, priceSnapshot |-> w.priceSnapshot]}
                /\ nextCartItemId' = nextCartItemId + 1
                /\ req' = Respond(s, req[s], "OK", 0)
    /\ UNCHANGED <<product, carts, orders, orderItems, nreq, reviews>>

\* cart.js PATCH /items/:itemId, up to the stock check.
UpdateItemCheck(u, itemId, q) ==
    LET found == {it \in cartItems : it.id = itemId}
    IN  IF found = {} \/ (\E it \in found : it.cartId # u) THEN "NotFound"
        ELSE LET it == CHOOSE x \in found : TRUE
             IN  IF ~Available(it.productId) THEN "ProductUnavailable"
                 ELSE IF q > product[it.productId].stock THEN "InsufficientStock"
                 ELSE "OK"

UpdateItemRead(s, u, itemId, q) ==
    /\ CanStart(s, UpdateItemCheck(u, itemId, q) = "OK")
    /\ LET r == [Idle EXCEPT !.op = "updateItem", !.user = u, !.id = itemId, !.qty = q]
           chk == UpdateItemCheck(u, itemId, q)
       IN  IF chk # "OK"
           THEN req' = Respond(s, r, chk, 0) /\ nreq' = nreq
           ELSE LET it == CHOOSE x \in cartItems : x.id = itemId
                IN  nreq' = nreq + 1 /\ req' = Pend(s,
                       [r EXCEPT !.pc = "write",
                                 !.snap = {[id |-> itemId, productId |-> it.productId,
                                            qty |-> q,
                                            priceSnapshot |-> product[it.productId].price,
                                            price |-> product[it.productId].price]}])
    /\ UNCHANGED db

UpdateItemWrite(s) ==
    /\ At(s, "updateItem", "write")
    /\ LET w == CHOOSE x \in req[s].snap : TRUE
       IN  IF \E it \in cartItems : it.id = w.id
           THEN /\ cartItems' = {IF it.id = w.id
                                 THEN [it EXCEPT !.qty = w.qty,
                                                 !.priceSnapshot = w.priceSnapshot]
                                 ELSE it : it \in cartItems}
                /\ req' = Respond(s, req[s], "OK", 0)
           ELSE /\ req' = Respond(s, req[s], "Failed", 0)
                /\ UNCHANGED cartItems
    /\ UNCHANGED <<product, carts, nextCartItemId, orders, orderItems, nreq, reviews>>

\* Mutant of RemoveItemCheck: the item's cart is not compared with the caller's.
RemoveItemCheckNoOwner(u, itemId) ==
    IF \E it \in cartItems : it.id = itemId THEN "OK" ELSE "NotFound"

\* cart.js DELETE /items/:itemId: findUnique by id, then the ownership test.
RemoveItemCheck(u, itemId) ==
    IF \E it \in cartItems : it.id = itemId /\ it.cartId = u THEN "OK" ELSE "NotFound"

\* cart.js DELETE /items/:itemId up to the test; getOrCreateCart runs first.
RemoveItemRead(s, u, itemId) ==
    /\ CanStart(s, RemoveItemCheck(u, itemId) = "OK")
    /\ LET r == [Idle EXCEPT !.op = "removeItem", !.user = u, !.id = itemId]
           chk == RemoveItemCheck(u, itemId)
       IN  IF chk # "OK"
           THEN req' = Respond(s, r, chk, 0) /\ nreq' = nreq
           ELSE nreq' = nreq + 1 /\ req' = Pend(s, [r EXCEPT !.pc = "write"])
    /\ carts' = carts \cup {u}
    /\ UNCHANGED <<product, cartItems, nextCartItemId, orders, orderItems, reviews>>

\* cart.js DELETE /items/:itemId, cartItem.delete by id: it throws (answer
\* 500) when the row was deleted meanwhile.
RemoveItemWrite(s) ==
    /\ At(s, "removeItem", "write")
    /\ IF \E it \in cartItems : it.id = req[s].id
       THEN /\ cartItems' = {it \in cartItems : it.id # req[s].id}
            /\ req' = Respond(s, req[s], "OK", 1)
       ELSE /\ req' = Respond(s, req[s], "Failed", 0)
            /\ UNCHANGED cartItems
    /\ UNCHANGED <<product, carts, nextCartItemId, orders, orderItems, nreq, reviews>>

\* cart.js DELETE / (clear): getOrCreateCart.
ClearCartRead(s, u) ==
    /\ CanStart(s, TRUE)
    /\ nreq' = nreq + 1
    /\ req' = Pend(s, [Idle EXCEPT !.op = "clear", !.user = u, !.pc = "write"])
    /\ carts' = carts \cup {u}
    /\ UNCHANGED <<product, cartItems, nextCartItemId, orders, orderItems, reviews>>

\* Mutant of ClearCartWrite: clearing the cart gives its units back to stock.
ClearCartWriteReleases(s) ==
    /\ At(s, "clear", "write")
    /\ cartItems' = {it \in cartItems : it.cartId # req[s].user}
    /\ product' = [p \in Products |->
                      [product[p] EXCEPT !.stock = @ +
                          SumQty({it \in CartItemsOf(req[s].user) : it.productId = p})]]
    /\ req' = Respond(s, req[s], "OK", Cardinality(CartItemsOf(req[s].user)))
    /\ UNCHANGED <<carts, nextCartItemId, orders, orderItems, nreq, reviews>>

\* cart.js DELETE / (clear): cartItem.deleteMany of the caller's cart.
ClearCartWrite(s) ==
    /\ At(s, "clear", "write")
    /\ cartItems' = {it \in cartItems : it.cartId # req[s].user}
    /\ req' = Respond(s, req[s], "OK", Cardinality(CartItemsOf(req[s].user)))
    /\ UNCHANGED <<product, carts, nextCartItemId, orders, orderItems, nreq, reviews>>

\* cart.js GET / (list): getOrCreateCart.
ListCartRead(s, u) ==
    /\ CanStart(s, TRUE)
    /\ nreq' = nreq + 1
    /\ req' = Pend(s, [Idle EXCEPT !.op = "list", !.user = u, !.pc = "read"])
    /\ carts' = carts \cup {u}
    /\ UNCHANGED <<product, cartItems, nextCartItemId, orders, orderItems, reviews>>

\* cart.js GET / (list): cartItem.findMany of the caller's cart; the answer
\* carries the items and their grand total.
ListCartItems(s) ==
    /\ At(s, "list", "read")
    /\ req' = Respond(s, [req[s] EXCEPT !.snap = CartItemsOf(req[s].user)], "OK",
                      SumAmount(CartItemsOf(req[s].user)))
    /\ UNCHANGED <<product, carts, cartItems, nextCartItemId, orders, orderItems, nreq, reviews>>

\* ---------------------------------------------------- Checkout Orchestrator
\* reviews.js POST /checkout, itemWhere: the whole cart, or the selected ids.
CheckoutItems(u, sel) ==
    {it \in CartItemsOf(u) : sel = {} \/ it.id \in sel}

\* Mutant of ValidateItems: only the first item is validated.
ValidateFirstItemOnly(its) ==
    IF its = <<>> THEN "OK"
    ELSE LET it == Head(its)
         IN  IF ~Available(it.productId) THEN "ProductUnavailable"
             ELSE IF product[it.productId].stock < it.qty THEN "InsufficientStock"
             ELSE "OK"

\* reviews.js POST /checkout, the validation loop over the items as read, in
\* order: the answer of the first item that fails, "OK" when none fails.
RECURSIVE ValidateItems(_)
ValidateItems(its) ==
    IF its = <<>> THEN "OK"
    ELSE LET it == Head(its)
         IN  IF ~Available(it.productId) THEN "ProductUnavailable"
             ELSE IF product[it.productId].stock < it.qty THEN "InsufficientStock"
             ELSE ValidateItems(Tail(its))

\* Mutant of CheckoutCheck: a selection is accepted when some of its ids are
\* in the cart.
CheckoutCheckSomeFound(u, sel) ==
    LET items == CheckoutItems(u, sel)
    IN  IF u \notin carts THEN "EmptyCart"
        ELSE IF sel # {} /\ items = {} THEN "InvalidSelection"
        ELSE IF items = {} THEN "EmptyCart"
        ELSE ValidateItems(SortById(items))

\* Mutant of CheckoutCheck: the test for an empty item list is missing.
CheckoutCheckSkipsEmpty(u, sel) ==
    LET items == CheckoutItems(u, sel)
    IN  IF u \notin carts THEN "EmptyCart"
        ELSE IF sel # {} /\ items = {} THEN "InvalidSelection"
        ELSE IF sel # {} /\ (\E i \in sel : \A it \in items : it.id # i)
             THEN "InvalidSelection"
        ELSE ValidateItems(SortById(items))

\* reviews.js POST /checkout, every check before the transaction.  "Cart is
\* empty" is EmptyCart; "No selected items found in your cart" and "Some
\* selected items are not in your cart" are InvalidSelection.
CheckoutCheck(u, sel) ==
    LET items == CheckoutItems(u, sel)
    IN  IF u \notin carts THEN "EmptyCart"
        ELSE IF sel # {} /\ items = {} THEN "InvalidSelection"
        ELSE IF sel # {} /\ (\E i \in sel : \A it \in items : it.id # i)
             THEN "InvalidSelection"
        ELSE IF items = {} THEN "EmptyCart"
        ELSE ValidateItems(SortById(items))

CheckoutRead(s, u, sel) ==
    /\ CanStart(s, CheckoutCheck(u, sel) = "OK")
    /\ LET r == [Idle EXCEPT !.op = "checkout", !.user = u, !.sel = sel]
           chk == CheckoutCheck(u, sel)
       IN  IF chk # "OK"
           THEN req' = Respond(s, r, chk, 0) /\ nreq' = nreq
           ELSE nreq' = nreq + 1 /\ req' = Pend(s,
                    [r EXCEPT !.pc = "tx",
                              !.snap = {[id |-> it.id, productId |-> it.productId,
                                         qty |-> it.qty,
                                         priceSnapshot |-> it.priceSnapshot,
                                         price |-> product[it.productId].price]
                                        : it \in CheckoutItems(u, sel)}])
    /\ UNCHANGED db

\* The shops of the items, in the order of first appearance (the Map's keys).
RECURSIVE GroupKeys(_, _)
GroupKeys(its, seen) ==
    IF its = <<>> THEN <<>>
    ELSE LET k == ProductShop(Head(its).productId)
         IN  IF k \in seen THEN GroupKeys(Tail(its), seen)
             ELSE <<k>> \o GroupKeys(Tail(its), seen \cup {k})

\* Mutant of GroupOf: every group holds all the items (no partition by shop).
GroupOfAll(its, k) == its

GroupOf(its, k) == SelectSeq(its, LAMBDA x : ProductShop(x.productId) = k)

SeqToSet(q) == {q[i] : i \in 1..Len(q)}

\* Mutant of NewOrders: the order is created with paymentStatus PENDING.
NewOrdersPending(u, its) ==
    LET keys == GroupKeys(its, {})
    IN  [k \in 1..Len(keys) |->
            [userId |-> u, paymentStatus |-> "PENDING",
             totalAmount |-> SumAmount(SeqToSet(GroupOf(its, keys[k])))]]

\* tx.order.create per shop group.
NewOrders(u, its) ==
    LET keys == GroupKeys(its, {})
    IN  [k \in 1..Len(keys) |->
            [userId |-> u, paymentStatus |-> "PAID",
             totalAmount |-> SumAmount(SeqToSet(GroupOf(its, keys[k])))]]

\* tx.orderItem.create per item of each group.
RECURSIVE NewOrderItems(_, _, _)
NewOrderItems(keys, its, base) ==
    IF keys = <<>> THEN <<>>
    ELSE LET grp == GroupOf(its, Head(keys))
         IN  [i \in 1..Len(grp) |->
                 [orderId |-> base + 1, productId |-> grp[i].productId,
                  shopId |-> Head(keys), qty |-> grp[i].qty, status |-> "NEW",
                  priceSnap |-> grp[i].price]]
             \o NewOrderItems(Tail(keys), its, base + 1)

\* Mutant of Reserve: the stock is taken, soldCount is not raised.
ReserveStockOnly(prods, items) ==
    [p \in Products |->
        LET q == SumQty({it \in items : it.productId = p})
        IN  [prods[p] EXCEPT !.stock = @ - q]]

\* tx.product.update per item: stock decrement, soldCount increment.
Reserve(prods, items) ==
    [p \in Products |->
        LET q == SumQty({it \in items : it.productId = p})
        IN  [prods[p] EXCEPT !.stock = @ - q, !.soldCount = @ + q]]

\* Mutant of CartAfterCheckout: the whole cart is emptied, selection or not.
CartAfterCheckoutClearsAll(u, sel) == {it \in cartItems : it.cartId # u}

\* tx.cartItem.deleteMany: the selected ids, or the whole cart.
CartAfterCheckout(u, sel) ==
    {it \in cartItems : ~(it.cartId = u /\ (sel = {} \/ it.id \in sel))}

\* reviews.js POST /checkout, the prisma.$transaction; tx.product.update of a
\* row that was removed throws and the transaction rolls back (answer 500).
CheckoutTx(s) ==
    /\ At(s, "checkout", "tx")
    /\ LET u == req[s].user
           its == SortById(req[s].snap)
       IN  IF \E it \in req[s].snap : product[it.productId].deleted
           THEN /\ req' = Respond(s, req[s], "Failed", 0)
                /\ UNCHANGED <<orders, orderItems, product, cartItems>>
           ELSE /\ orders' = orders \o NewOrders(u, its)
                /\ orderItems' = orderItems \o
                       NewOrderItems(GroupKeys(its, {}), its, Len(orders))
                /\ product' = Reserve(product, req[s].snap)
                /\ cartItems' = CartAfterCheckout(u, req[s].sel)
                /\ req' = Respond(s, req[s], "OK", Len(GroupKeys(its, {})))
    /\ UNCHANGED <<carts, nextCartItemId, nreq, reviews>>

\* reviews.js POST /checkout, the order code: "ORD-", the last 8 decimal
\* digits of Date.now(), "-", the shop id.  Time is counted in ms from an
\* instant whose Date.now() is a multiple of CodeModulus.
OrderCode(t, shopId) == <<"ORD", t % CodeModulus, shopId>>

\* tx.order.create per shop group, with the code and createdAt of the clock
\* value t at which the transaction runs and the address a of the request.
NewOrdersAt(u, its, t, a) ==
    LET keys == GroupKeys(its, {})
    IN  [k \in 1..Len(keys) |->
            [userId |-> u, paymentStatus |-> "PAID",
             totalAmount |-> SumAmount(SeqToSet(GroupOf(its, keys[k]))),
             code |-> OrderCode(t, keys[k]), createdAt |-> t, addressSnap |-> a]]

\* reviews.js POST /checkout, the prisma.$transaction run at clock value t
\* (the clock never runs backwards) for a request with address a.
CheckoutTxAt(s, t, a) ==
    /\ At(s, "checkout", "tx")
    /\ \A o \in DOMAIN orders : orders[o].createdAt <= t
    /\ LET u == req[s].user
           its == SortById(req[s].snap)
       IN  /\ orders' = orders \o NewOrdersAt(u, its, t, a)
           /\ orderItems' = orderItems \o NewOrderItems(GroupKeys(its, {}), its, Len(orders))
           /\ product' = Reserve(product, req[s].snap)
           /\ cartItems' = CartAfterCheckout(u, req[s].sel)
           /\ req' = Respond(s, req[s], "OK", Len(GroupKeys(its, {})))
    /\ UNCHANGED <<carts, nextCartItemId, nreq, reviews>>

\* The client each write of the checkout goes through: all of them use the
\* transaction client tx, none the global prisma client.
TxClientStockOutside(kind) == IF kind = "stock" THEN "prisma" ELSE "tx"

TxClient(kind) == "tx"

\* The writes of the transaction in program order: per shop group the order,
\* then per item its order item and its stock update; last the cart deletion.
RECURSIVE ItemWrites(_)
ItemWrites(grp) ==
    IF grp = <<>> THEN <<>>
    ELSE <<[kind |-> "orderItem", it |-> Head(grp)], [kind |-> "stock", it |-> Head(grp)]>>
         \o ItemWrites(Tail(grp))

RECURSIVE GroupWrites(_, _)
GroupWrites(keys, its) ==
    IF keys = <<>> THEN <<>>
    ELSE LET grp == GroupOf(its, Head(keys))
         IN  <<[kind |-> "order", it |-> Head(grp)]>> \o ItemWrites(grp)
             \o GroupWrites(Tail(keys), its)

TxWrites(its) ==
    GroupWrites(GroupKeys(its, {}), its) \o <<[kind |-> "cartDelete", it |-> Head(its)]>>

\* One write applied to the committed tables st.
ApplyWrite(st, w, u, sel, its) ==
    IF w.kind = "order"
    THEN [st EXCEPT !.orders = Append(@,
             [userId |-> u, paymentStatus |-> "PAID",
              totalAmount |-> SumAmount(SeqToSet(GroupOf(its, ProductShop(w.it.productId))))])]
    ELSE IF w.kind = "orderItem"
    THEN [st EXCEPT !.orderItems = Append(@,
             [orderId |-> Len(st.orders), productId |-> w.it.productId,
              shopId |-> ProductShop(w.it.productId), qty |-> w.it.qty,
              status |-> "NEW", priceSnap |-> w.it.price])]
    ELSE IF w.kind = "stock"
    THEN [st EXCEPT !.product[w.it.productId].stock = @ - w.it.qty,
                    !.product[w.it.productId].soldCount = @ + w.it.qty]
    ELSE [st EXCEPT !.cartItems =
             {c \in @ : ~(c.cartId = u /\ (sel = {} \/ c.id \in sel))}]

\* What is left of the first k writes after the transaction rolled back:
\* the writes that did not go through tx.
RECURSIVE AfterRollback(_, _, _, _, _, _)
AfterRollback(st, ws, k, u, sel, its) ==
    IF k = 0 \/ ws = <<>> THEN st
    ELSE AfterRollback(IF TxClient(Head(ws).kind) = "tx" THEN st
                       ELSE ApplyWrite(st, Head(ws), u, sel, its),
                       Tail(ws), k - 1, u, sel, its)

\* reviews.js POST /checkout: a write of the transaction (or its commit)
\* throws after k writes; prisma.$transaction rolls back and the catch block
\* answers "Checkout failed".
CheckoutTxFail(s, k) ==
    /\ At(s, "checkout", "tx")
    /\ LET u == req[s].user
           its == SortById(req[s].snap)
           st == AfterRollback([product |-> product, orders |-> orders,
                                orderItems |-> orderItems, cartItems |-> cartItems],
                               TxWrites(its), k, u, req[s].sel, its)
       IN  /\ k <= Len(TxWrites(its))
           /\ product' = st.product
           /\ orders' = st.orders
           /\ orderItems' = st.orderItems
           /\ cartItems' = st.cartItems
           /\ req' = Respond(s, req[s], "Failed", 0)
    /\ UNCHANGED <<carts, nextCartItemId, nreq, reviews>>

\* ------------------------------------------- Fulfillment state machine
\* seller.fulfillment.js getMyShopOr403: the caller's shop, 0 when none.
getMyShopOr403(u) ==
    IF \E sh \in Shops : ShopOwner(sh) = u
    THEN CHOOSE sh \in Shops : ShopOwner(sh) = u
    ELSE 0

\* Mutant of canSellerTransit: a SHIPPED item may still be cancelled.
canSellerTransitLoose(from, to) ==
    IF to = "CANCELLED" THEN from \in {"NEW", "CONFIRMED", "SHIPPED"}
    ELSE IF from = "NEW" /\ to = "CONFIRMED" THEN TRUE
    ELSE IF from = "CONFIRMED" /\ to = "SHIPPED" THEN TRUE
    ELSE FALSE

\* Mutant of canSellerTransit: CANCELLED is granted without looking at from.
canSellerTransitNoFrom(from, to) ==
    IF to = "CANCELLED" THEN TRUE
    ELSE IF from = "NEW" /\ to = "CONFIRMED" THEN TRUE
    ELSE IF from = "CONFIRMED" /\ to = "SHIPPED" THEN TRUE
    ELSE FALSE

\* seller.fulfillment.js canSellerTransit.
canSellerTransit(from, to) ==
    IF to = "CANCELLED" THEN from = "NEW" \/ from = "CONFIRMED"
    ELSE IF from = "NEW" /\ to = "CONFIRMED" THEN TRUE
    ELSE IF from = "CONFIRMED" /\ to = "SHIPPED" THEN TRUE
    ELSE FALSE

\* Mutant of SellerStatusCheck: the item's shopId is not compared.
SellerStatusCheckNoShopMatch(u, id, to) ==
    IF to \notin SELLER_UPDATE_STATUSES THEN "ValidationError"
    ELSE IF getMyShopOr403(u) = 0 THEN "Forbidden"
    ELSE IF id \notin DOMAIN orderItems THEN "NotFound"
    ELSE IF ~canSellerTransit(orderItems[id].status, to) THEN "InvalidTransition"
    ELSE "OK"

\* Mutant of SellerStatusCheck: the requested status is not validated.
SellerStatusCheckNoValidation(u, id, to) ==
    IF getMyShopOr403(u) = 0 THEN "Forbidden"
    ELSE IF id \notin DOMAIN orderItems THEN "NotFound"
    ELSE IF orderItems[id].shopId # getMyShopOr403(u) THEN "Forbidden"
    ELSE IF ~canSellerTransit(orderItems[id].status, to) THEN "InvalidTransition"
    ELSE "OK"

\* seller.fulfillment.js PATCH /:id/status, every check before the update:
\* the validator of the requested status runs before the handler.
SellerStatusCheck(u, id, to) ==
    IF to \notin SELLER_UPDATE_STATUSES THEN "ValidationError"
    ELSE IF getMyShopOr403(u) = 0 THEN "Forbidden"
    ELSE IF id \notin DOMAIN orderItems THEN "NotFound"
    ELSE IF orderItems[id].shopId # getMyShopOr403(u) THEN "Forbidden"
    ELSE IF ~canSellerTransit(orderItems[id].status, to) THEN "InvalidTransition"
    ELSE "OK"

SellerStatusRead(s, u, id, to) ==
    /\ CanStart(s, SellerStatusCheck(u, id, to) = "OK")
    /\ LET r == [Idle EXCEPT !.op = "sellerStatus", !.user = u, !.id = id, !.to = to]
           chk == SellerStatusCheck(u, id, to)
       IN  IF chk # "OK"
           THEN req' = Respond(s, r, chk, 0) /\ nreq' = nreq
           ELSE nreq' = nreq + 1 /\ req' = Pend(s, [r EXCEPT !.pc = "write"])
    /\ UNCHANGED db

\* seller.fulfillment.js PATCH /:id/status, prisma.orderItem.update.
SellerStatusWrite(s) ==
    /\ At(s, "sellerStatus", "write")
    /\ orderItems' = [orderItems EXCEPT ![req[s].id].status = req[s].to]
    /\ req' = Respond(s, req[s], "OK", 0)
    /\ UNCHANGED <<product, carts, cartItems, nextCartItemId, orders, nreq, reviews>>

\* Mutant of CompleteCheck: the order's buyer is not compared.
CompleteCheckNoOwner(u, id) ==
    IF id \notin DOMAIN orderItems THEN "NotFound"
    ELSE IF orderItems[id].status # "SHIPPED" THEN "InvalidTransition"
    ELSE "OK"

\* reviews.js PATCH /items/:id/complete, every check before the update.
CompleteCheck(u, id) ==
    IF id \notin DOMAIN orderItems THEN "NotFound"
    ELSE IF orders[orderItems[id].orderId].userId # u THEN "Forbidden"
    ELSE IF orderItems[id].status # "SHIPPED" THEN "InvalidTransition"
    ELSE "OK"

CompleteRead(s, u, id) ==
    /\ CanStart(s, CompleteCheck(u, id) = "OK")
    /\ LET r == [Idle EXCEPT !.op = "complete", !.user = u, !.id = id]
           chk == CompleteCheck(u, id)
       IN  IF chk # "OK"
           THEN req' = Respond(s, r, chk, 0) /\ nreq' = nreq
           ELSE nreq' = nreq + 1 /\ req' = Pend(s, [r EXCEPT !.pc = "write"])
    /\ UNCHANGED db

\* Mutant of CompleteWrite: the update waits until the item is SHIPPED again.
CompleteWriteWaitsForShipped(s) ==
    /\ At(s, "complete", "write")
    /\ orderItems[req[s].id].status = "SHIPPED"
    /\ orderItems' = [orderItems EXCEPT ![req[s].id].status = "COMPLETED"]
    /\ req' = Respond(s, req[s], "OK", 0)
    /\ UNCHANGED <<product, carts, cartItems, nextCartItemId, orders, nreq, reviews>>

\* reviews.js PATCH /items/:id/complete, prisma.orderItem.update.
CompleteWrite(s) ==
    /\ At(s, "complete", "write")
    /\ orderItems' = [orderItems EXCEPT ![req[s].id].status = "COMPLETED"]
    /\ req' = Respond(s, req[s], "OK", 0)
    /\ UNCHANGED <<product, carts, cartItems, nextCartItemId, orders, nreq, reviews>>

\* ------------------------------------------------ Order cancellation
ItemsOfOrder(o) == {i \in DOMAIN orderItems : orderItems[i].orderId = o}

\* Mutant of CancelCheck: only COMPLETED items block the cancellation.
CancelCheckCompletedOnly(u, o) ==
    IF o \notin DOMAIN orders \/ orders[o].userId # u THEN "NotFound"
    ELSE IF \E i \in ItemsOfOrder(o) : orderItems[i].status = "COMPLETED"
         THEN "OrderNotCancellable"
    ELSE "OK"

\* Mutant of CancelCheck: the order's buyer is not compared with the caller.
CancelCheckNoOwner(u, o) ==
    IF o \notin DOMAIN orders THEN "NotFound"
    ELSE IF \E i \in ItemsOfOrder(o) : orderItems[i].status \in {"SHIPPED", "COMPLETED"}
         THEN "OrderNotCancellable"
    ELSE "OK"

\* reviews.js PATCH /:id/cancel, every check before the write.
CancelCheck(u, o) ==
    IF o \notin DOMAIN orders \/ orders[o].userId # u THEN "NotFound"
    ELSE IF \E i \in ItemsOfOrder(o) : orderItems[i].status \in {"SHIPPED", "COMPLETED"}
         THEN "OrderNotCancellable"
    ELSE "OK"

\* Mutant of Cancellable: items already CANCELLED are cancelled again.
CancellableAnyStatus(o) ==
    {[id |-> i, productId |-> orderItems[i].productId, qty |-> orderItems[i].qty,
      priceSnapshot |-> 0, price |-> 0] : i \in ItemsOfOrder(o)}

\* reviews.js PATCH /:id/cancel, the items NEW or CONFIRMED as read.
Cancellable(o) ==
    {[id |-> i, productId |-> orderItems[i].productId, qty |-> orderItems[i].qty,
      priceSnapshot |-> 0, price |-> 0]
        : i \in {j \in ItemsOfOrder(o) : orderItems[j].status \in {"NEW", "CONFIRMED"}}}

CancelRead(s, u, o) ==
    /\ CanStart(s, CancelCheck(u, o) = "OK")
    /\ LET r == [Idle EXCEPT !.op = "cancel", !.user = u, !.id = o]
           chk == CancelCheck(u, o)
       IN  IF chk # "OK"
           THEN req' = Respond(s, r, chk, 0) /\ nreq' = nreq
           ELSE nreq' = nreq + 1 /\ req' = Pend(s, [r EXCEPT !.pc = "write", !.snap = Cancellable(o)])
    /\ UNCHANGED db

\* Mutant of Release: the stock is given back, soldCount is not corrected.
ReleaseStockOnly(prods, items) ==
    [p \in Products |->
        LET q == SumQty({it \in items : it.productId = p})
        IN  [prods[p] EXCEPT !.stock = @ + q]]

\* tx.product.update per cancelled item: stock increment, soldCount decrement.
Release(prods, items) ==
    [p \in Products |->
        LET q == SumQty({it \in items : it.productId = p})
        IN  [prods[p] EXCEPT !.stock = @ + q, !.soldCount = @ - q]]

\* The paymentStatus field of the cancel response: "REFUNDED" after the
\* transaction, absent ("") in the answer given when nothing is cancellable.
CancelResponseStatus(ids) == IF ids = {} THEN "" ELSE "REFUNDED"

\* Mutant of CancelWrite: with nothing to cancel the order is not updated.
CancelWriteNoRefundWhenEmpty(s) ==
    /\ At(s, "cancel", "write")
    /\ LET ids == {it.id : it \in req[s].snap}
       IN  /\ orderItems' = [i \in DOMAIN orderItems |->
                                IF i \in ids
                                THEN [orderItems[i] EXCEPT !.status = "CANCELLED"]
                                ELSE orderItems[i]]
           /\ product' = Release(product, req[s].snap)
           /\ orders' = IF ids = {} THEN orders
                        ELSE [orders EXCEPT ![req[s].id].paymentStatus = "REFUNDED"]
           /\ req' = Respond(s, [req[s] EXCEPT !.to = CancelResponseStatus(ids)],
                             "OK", Cardinality(ids))
    /\ UNCHANGED <<carts, cartItems, nextCartItemId, nreq, reviews>>

\* Mutant of CancelWrite: the refund also zeroes the order's totalAmount.
CancelWriteZeroesTotal(s) ==
    /\ At(s, "cancel", "write")
    /\ LET ids == {it.id : it \in req[s].snap}
       IN  /\ orderItems' = [i \in DOMAIN orderItems |->
                                IF i \in ids
                                THEN [orderItems[i] EXCEPT !.status = "CANCELLED"]
                                ELSE orderItems[i]]
           /\ product' = Release(product, req[s].snap)
           /\ orders' = [orders EXCEPT ![req[s].id].paymentStatus = "REFUNDED",
                                       ![req[s].id].totalAmount = 0]
           /\ req' = Respond(s, [req[s] EXCEPT !.to = CancelResponseStatus(ids)],
                             "OK", Cardinality(ids))
    /\ UNCHANGED <<carts, cartItems, nextCartItemId, nreq, reviews>>

\* reviews.js PATCH /:id/cancel: order.update alone when nothing is
\* cancellable, else the prisma.$transaction.
CancelWrite(s) ==
    /\ At(s, "cancel", "write")
    /\ LET ids == {it.id : it \in req[s].snap}
       IN  /\ orderItems' = [i \in DOMAIN orderItems |->
                                IF i \in ids
                                THEN [orderItems[i] EXCEPT !.status = "CANCELLED"]
                                ELSE orderItems[i]]
           /\ product' = Release(product, req[s].snap)
           /\ orders' = [orders EXCEPT ![req[s].id].paymentStatus = "REFUNDED"]
           /\ req' = Respond(s, [req[s] EXCEPT !.to = CancelResponseStatus(ids)],
                             "OK", Cardinality(ids))
    /\ UNCHANGED <<carts, cartItems, nextCartItemId, nreq, reviews>>

\* ------------------------------------------------------ Product management
\* seller.products.js PUT /:id with body {isActive}: one update of the row.
ProductUpdateCheck(u, p) ==
    IF getMyShopOr403(u) = 0 THEN "SellerNotActivated"
    ELSE IF product[p].deleted \/ ProductShop(p) # getMyShopOr403(u) THEN "NotFound"
    ELSE "OK"

ProductSetActive(s, u, p, active) ==
    /\ CanStart(s, ProductUpdateCheck(u, p) = "OK")
    /\ LET r == [Idle EXCEPT !.op = "productUpdate", !.user = u, !.id = p]
           chk == ProductUpdateCheck(u, p)
       IN  /\ req' = Respond(s, r, chk, 0)
           /\ nreq' = IF chk = "OK" THEN nreq + 1 ELSE nreq
           /\ product' = IF chk = "OK"
                         THEN [product EXCEPT ![p].isActive = active]
                         ELSE product
    /\ UNCHANGED <<carts, cartItems, nextCartItemId, orders, orderItems, reviews>>

\* seller.products.js PUT /:id with body {price}: one update of the row.
ProductSetPrice(s, u, p, price) ==
    /\ CanStart(s, ProductUpdateCheck(u, p) = "OK")
    /\ LET r == [Idle EXCEPT !.op = "productUpdate", !.user = u, !.id = p]
           chk == ProductUpdateCheck(u, p)
       IN  /\ req' = Respond(s, r, chk, 0)
           /\ nreq' = IF chk = "OK" THEN nreq + 1 ELSE nreq
           /\ product' = IF chk = "OK"
                         THEN [product EXCEPT ![p].price = price]
                         ELSE product
    /\ UNCHANGED <<carts, cartItems, nextCartItemId, orders, orderItems, reviews>>

\* seller.products.js DELETE /:id: the seller's shop, the product of that shop.
ProductDeleteCheck(u, p) ==
    IF getMyShopOr403(u) = 0 THEN "SellerNotActivated"
    ELSE IF product[p].deleted \/ ProductShop(p) # getMyShopOr403(u) THEN "NotFound"
    ELSE "OK"

\* orderItem.findFirst {productId, shopId, status in NEW, CONFIRMED, SHIPPED}.
ActiveOrderItems(p) ==
    {i \in DOMAIN orderItems :
        /\ orderItems[i].productId = p
        /\ orderItems[i].shopId = ProductShop(p)
        /\ orderItems[i].status \in {"NEW", "CONFIRMED", "SHIPPED"}}

\* seller.products.js DELETE /:id up to the choice between deactivating the
\* product (an active order item was found) and deleting it.
ProductDeleteRead(s, u, p) ==
    /\ CanStart(s, ProductDeleteCheck(u, p) = "OK")
    /\ LET r == [Idle EXCEPT !.op = "productDelete", !.user = u, !.id = p]
           chk == ProductDeleteCheck(u, p)
       IN  IF chk # "OK"
           THEN req' = Respond(s, r, chk, 0) /\ nreq' = nreq
           ELSE nreq' = nreq + 1 /\ req' = Pend(s,
                    [r EXCEPT !.pc = "write",
                              !.to = IF ActiveOrderItems(p) # {} THEN "deactivate"
                                     ELSE "delete"])
    /\ UNCHANGED db

\* Rows that reference product p.
ReferencesTo(p) ==
    {it \in cartItems : it.productId = p}
        \cup {orderItems[i] : i \in {j \in DOMAIN orderItems : orderItems[j].productId = p}}

\* seller.products.js DELETE /:id, the write: product.update {isActive: false}
\* or product.delete.  Either throws when the row is gone (answer 500).  The
\* delete of a row that cart items or order items still reference removes it
\* or is refused by the database, depending on the referential action of a
\* schema that is not part of the sources: both outcomes are possible.
ProductDeleteWrite(s) ==
    /\ At(s, "productDelete", "write")
    /\ LET p == req[s].id
       IN  \/ /\ ~product[p].deleted
              /\ product' = IF req[s].to = "deactivate"
                             THEN [product EXCEPT ![p].isActive = FALSE]
                             ELSE [product EXCEPT ![p].deleted = TRUE]
              /\ req' = Respond(s, req[s], "OK", 0)
           \/ /\ \/ product[p].deleted
                 \/ req[s].to = "delete" /\ ReferencesTo(p) # {}
              /\ req' = Respond(s, req[s], "Failed", 0)
              /\ UNCHANGED product
    /\ UNCHANGED <<carts, cartItems, nextCartItemId, orders, orderItems, nreq, reviews>>

\* ------------------------------------------------------------ specification
\* -------------------------------------------------------------- Reviews
\* A product id that no Product row has.
MissingProduct == Cardinality(Products) + 1

\* orderItem.findFirst {productId, status: COMPLETED, order: {userId}}.
CompletedItems(u, p) ==
    {i \in DOMAIN orderItems :
        /\ orderItems[i].productId = p
        /\ orderItems[i].status = "COMPLETED"
        /\ orders[orderItems[i].orderId].userId = u}

\* Mutant of ReviewCheck: any purchased item of the product is enough.
ReviewCheckAnyStatus(u, p) ==
    IF p \notin Products THEN "NotFound"
    ELSE IF ~\E i \in DOMAIN orderItems :
                /\ orderItems[i].productId = p
                /\ orders[orderItems[i].orderId].userId = u
         THEN "NotPurchased"
    ELSE "OK"

\* reviews.js POST /: the product must exist, the buyer must have a
\* COMPLETED item of it.
ReviewCheck(u, p) ==
    IF p \notin Products THEN "NotFound"
    ELSE IF CompletedItems(u, p) = {} THEN "NotPurchased"
    ELSE "OK"

\* review.findFirst {userId, productId}: the id of the row found, or 0.
ExistingReview(u, p) ==
    LET same == {r \in reviews : r.userId = u /\ r.productId = p}
    IN  IF same = {} THEN 0 ELSE SortById(same)[1].id

\* reviews.js POST / up to the lookup of the existing review.
ReviewRead(s, u, p, star) ==
    /\ CanStart(s, ReviewCheck(u, p) = "OK")
    /\ LET r == [Idle EXCEPT !.op = "review", !.user = u, !.id = p, !.qty = star]
           chk == ReviewCheck(u, p)
       IN  IF chk # "OK"
           THEN req' = Respond(s, r, chk, 0) /\ nreq' = nreq
           ELSE nreq' = nreq + 1 /\ req' = Pend(s,
                    [r EXCEPT !.pc = "write", !.n = ExistingReview(u, p)])
    /\ UNCHANGED db

\* reviews.js POST /: review.update of the row found, else review.create.
ReviewWrite(s) ==
    /\ At(s, "review", "write")
    /\ IF req[s].n # 0
       THEN IF \E r \in reviews : r.id = req[s].n
            THEN /\ reviews' = {IF r.id = req[s].n THEN [r EXCEPT !.star = req[s].qty]
                                 ELSE r : r \in reviews}
                 /\ req' = Pend(s, [req[s] EXCEPT !.pc = "recalc"])
            ELSE /\ req' = Respond(s, req[s], "Failed", 0)
                 /\ UNCHANGED reviews
       ELSE /\ reviews' = reviews \cup
                    {[id |-> Cardinality(reviews) + 1, userId |-> req[s].user,
                      productId |-> req[s].id, star |-> req[s].qty]}
            /\ req' = Pend(s, [req[s] EXCEPT !.pc = "recalc"])
    /\ UNCHANGED <<product, carts, cartItems, nextCartItemId, orders, orderItems, nreq>>

RECURSIVE SumStar(_)
SumStar(S) ==
    IF S = {} THEN 0
    ELSE LET x == CHOOSE y \in S : TRUE IN x.star + SumStar(S \ {x})

\* Number(avg.toFixed(2)) in hundredths: the average star rounded to 0.01.
AvgRating(S) ==
    IF S = {} THEN 0
    ELSE (200 * SumStar(S) + Cardinality(S)) \div (2 * Cardinality(S))

\* recalcProductRating: review.aggregate and product.update of the product.
ReviewRecalc(s) ==
    /\ At(s, "review", "recalc")
    /\ LET of == {r \in reviews : r.productId = req[s].id}
       IN  product' = [product EXCEPT ![req[s].id].rating = AvgRating(of),
                                      ![req[s].id].reviewCount = Cardinality(of)]
    /\ req' = Respond(s, req[s], "OK", 0)
    /\ UNCHANGED <<carts, cartItems, nextCartItemId, orders, orderItems, reviews, nreq>>

CartItemIds == {it.id : it \in cartItems}

\* selectedItemIds of a checkout request: absent or empty (the whole cart), or
\* up to MaxSelected ids of cart items of any cart or of no cart item at all.
Selections ==
    {sel \in SUBSET (CartItemIds \cup {nextCartItemId}) : Cardinality(sel) <= MaxSelected}

Next ==
    \/ \E s \in Slots : Deliver(s)
    \/ \E s \in Slots, u \in Buyers, p \in Products, q \in Qtys : AddItemRead(s, u, p, q)
    \/ \E s \in Slots : AddItemWrite(s)
    \/ \E s \in Slots, u \in Buyers, i \in CartItemIds, q \in Qtys : UpdateItemRead(s, u, i, q)
    \/ \E s \in Slots : UpdateItemWrite(s)
    \/ \E s \in Slots, u \in Buyers, sel \in Selections : CheckoutRead(s, u, sel)
    \/ \E s \in Slots : CheckoutTx(s)
    \/ \E s \in Slots, u \in Users, i \in DOMAIN orderItems, to \in SELLER_UPDATE_STATUSES :
            SellerStatusRead(s, u, i, to)
    \/ \E s \in Slots : SellerStatusWrite(s)
    \/ \E s \in Slots, u \in Buyers, i \in DOMAIN orderItems : CompleteRead(s, u, i)
    \/ \E s \in Slots : CompleteWrite(s)
    \/ \E s \in Slots, u \in Buyers, o \in DOMAIN orders : CancelRead(s, u, o)
    \/ \E s \in Slots : CancelWrite(s)
    \/ \E s \in Slots, u \in Users, p \in Products : ProductSetActive(s, u, p, FALSE)

Spec == Init /\ [][Next]_vars

\* Cart, checkout and the seller's price updates (no fulfillment requests).
NextPricing ==
    \/ \E s \in Slots : Deliver(s)
    \/ \E s \in Slots, u \in Buyers, p \in Products, q \in Qtys : AddItemRead(s, u, p, q)
    \/ \E s \in Slots : AddItemWrite(s)
    \/ \E s \in Slots, u \in Buyers, i \in CartItemIds, q \in Qtys : UpdateItemRead(s, u, i, q)
    \/ \E s \in Slots : UpdateItemWrite(s)
    \/ \E s \in Slots, u \in Buyers, sel \in Selections : CheckoutRead(s, u, sel)
    \/ \E s \in Slots : CheckoutTx(s)
    \/ \E s \in Slots, u \in Users, p \in Products, price \in Prices :
            ProductSetPrice(s, u, p, price)

SpecPricing == Init /\ [][NextPricing]_vars

\* Cart and checkout with database faults inside the checkout transaction.
NextFaults ==
    \/ \E s \in Slots : Deliver(s)
    \/ \E s \in Slots, u \in Buyers, p \in Products, q \in Qtys : AddItemRead(s, u, p, q)
    \/ \E s \in Slots : AddItemWrite(s)
    \/ \E s \in Slots, u \in Buyers, i \in CartItemIds, q \in Qtys : UpdateItemRead(s, u, i, q)
    \/ \E s \in Slots : UpdateItemWrite(s)
    \/ \E s \in Slots, u \in Buyers, sel \in Selections : CheckoutRead(s, u, sel)
    \/ \E s \in Slots : CheckoutTx(s)
    \/ \E s \in Slots, k \in 0..MaxWrites : CheckoutTxFail(s, k)

SpecFaults == Init /\ [][NextFaults]_vars

\* Cart and checkout with the clock value and address of each checkout.
NextCodes ==
    \/ \E s \in Slots : Deliver(s)
    \/ \E s \in Slots, u \in Buyers, p \in Products, q \in Qtys : AddItemRead(s, u, p, q)
    \/ \E s \in Slots : AddItemWrite(s)
    \/ \E s \in Slots, u \in Buyers, sel \in Selections : CheckoutRead(s, u, sel)
    \/ \E s \in Slots, t \in Times, a \in Addresses : CheckoutTxAt(s, t, a)

SpecCodes == Init /\ [][NextCodes]_vars

\* Checkout of whole carts with the clock value and address of each request,
\* fulfillment and cancellation (also of an order id that does not exist).
NextOrders ==
    \/ \E s \in Slots : Deliver(s)
    \/ \E s \in Slots, u \in Buyers, p \in Products, q \in Qtys : AddItemRead(s, u, p, q)
    \/ \E s \in Slots : AddItemWrite(s)
    \/ \E s \in Slots, u \in Buyers, sel \in {{}} : CheckoutRead(s, u, sel)
    \/ \E s \in Slots, t \in Times, a \in Addresses : CheckoutTxAt(s, t, a)
    \/ \E s \in Slots, u \in Users, i \in DOMAIN orderItems, to \in SELLER_UPDATE_STATUSES :
            SellerStatusRead(s, u, i, to)
    \/ \E s \in Slots : SellerStatusWrite(s)
    \/ \E s \in Slots, u \in Buyers, i \in DOMAIN orderItems : CompleteRead(s, u, i)
    \/ \E s \in Slots : CompleteWrite(s)
    \/ \E s \in Slots, u \in Buyers, o \in 1..(Len(orders) + 1) : CancelRead(s, u, o)
    \/ \E s \in Slots : CancelWrite(s)

SpecOrders == Init /\ [][NextOrders]_vars

\* The cart requests of all buyers, with checkout of whole carts.
NextCart ==
    \/ \E s \in Slots : Deliver(s)
    \/ \E s \in Slots, u \in Buyers, p \in Products, q \in Qtys : AddItemRead(s, u, p, q)
    \/ \E s \in Slots : AddItemWrite(s)
    \/ \E s \in Slots, u \in Buyers, i \in CartItemIds, q \in Qtys : UpdateItemRead(s, u, i, q)
    \/ \E s \in Slots : UpdateItemWrite(s)
    \/ \E s \in Slots, u \in Buyers, i \in CartItemIds \cup {nextCartItemId} :
            RemoveItemRead(s, u, i)
    \/ \E s \in Slots : RemoveItemWrite(s)
    \/ \E s \in Slots, u \in Buyers : ClearCartRead(s, u)
    \/ \E s \in Slots : ClearCartWrite(s)
    \/ \E s \in Slots, u \in Buyers, sel \in {{}} : CheckoutRead(s, u, sel)
    \/ \E s \in Slots : CheckoutTx(s)

SpecCart == Init /\ [][NextCart]_vars

\* The state right after buyer 2 checked out one unit of product 1: order 1
\* with one NEW item, the unit reserved, the cart emptied.
InitPurchased ==
    LET its == <<[id |-> 1, cartId |-> 2, productId |-> 1, qty |-> 1,
                  priceSnapshot |-> SeedProducts[1].price,
                  price |-> SeedProducts[1].price]>>
    IN  /\ product = Reserve(SeedProducts, SeqToSet(its))
        /\ carts = {2}
        /\ cartItems = {}
        /\ nextCartItemId = 2
        /\ orders = NewOrders(2, its)
        /\ orderItems = NewOrderItems(GroupKeys(its, {}), its, 0)
        /\ reviews = {}
        /\ req = [s \in Slots |-> Idle]
        /\ nreq = 0

\* Fulfillment of a purchased item and the buyers' reviews.
NextReviews ==
    \/ \E s \in Slots : Deliver(s)
    \/ \E s \in Slots, u \in Users, i \in DOMAIN orderItems, to \in SELLER_UPDATE_STATUSES :
            SellerStatusRead(s, u, i, to)
    \/ \E s \in Slots : SellerStatusWrite(s)
    \/ \E s \in Slots, u \in Buyers, i \in DOMAIN orderItems : CompleteRead(s, u, i)
    \/ \E s \in Slots : CompleteWrite(s)
    \/ \E s \in Slots, u \in Buyers, p \in Products \cup {MissingProduct}, star \in Stars :
            ReviewRead(s, u, p, star)
    \/ \E s \in Slots : ReviewWrite(s)
    \/ \E s \in Slots : ReviewRecalc(s)

SpecReviews == InitPurchased /\ [][NextReviews]_vars

\* Every cart request, whole-cart checkout, seller transitions and
\* cancellation.
NextFrame ==
    \/ \E s \in Slots : Deliver(s)
    \/ \E s \in Slots, u \in Buyers, p \in Products, q \in Qtys : AddItemRead(s, u, p, q)
    \/ \E s \in Slots : AddItemWrite(s)
    \/ \E s \in Slots, u \in Buyers, i \in CartItemIds, q \in Qtys : UpdateItemRead(s, u, i, q)
    \/ \E s \in Slots : UpdateItemWrite(s)
    \/ \E s \in Slots, u \in Buyers, i \in CartItemIds : RemoveItemRead(s, u, i)
    \/ \E s \in Slots : RemoveItemWrite(s)
    \/ \E s \in Slots, u \in Buyers : ClearCartRead(s, u)
    \/ \E s \in Slots : ClearCartWrite(s)
    \/ \E s \in Slots, u \in Buyers : ListCartRead(s, u)
    \/ \E s \in Slots : ListCartItems(s)
    \/ \E s \in Slots, u \in Buyers, sel \in {{}} : CheckoutRead(s, u, sel)
    \/ \E s \in Slots : CheckoutTx(s)
    \/ \E s \in Slots, u \in Users, i \in DOMAIN orderItems, to \in SELLER_UPDATE_STATUSES :
            SellerStatusRead(s, u, i, to)
    \/ \E s \in Slots : SellerStatusWrite(s)
    \/ \E s \in Slots, u \in Buyers, o \in DOMAIN orders : CancelRead(s, u, o)
    \/ \E s \in Slots : CancelWrite(s)

SpecFrame == Init /\ [][NextFrame]_vars

\* Cart, whole-cart checkout, seller transitions and product deletion.
NextDelete ==
    \/ \E s \in Slots : Deliver(s)
    \/ \E s \in Slots, u \in Buyers, p \in Products, q \in Qtys : AddItemRead(s, u, p, q)
    \/ \E s \in Slots : AddItemWrite(s)
    \/ \E s \in Slots, u \in Buyers, sel \in {{}} : CheckoutRead(s, u, sel)
    \/ \E s \in Slots : CheckoutTx(s)
    \/ \E s \in Slots, u \in Users, i \in DOMAIN orderItems, to \in SELLER_UPDATE_STATUSES :
            SellerStatusRead(s, u, i, to)
    \/ \E s \in Slots : SellerStatusWrite(s)
    \/ \E s \in Slots, u \in Users, p \in Products : ProductDeleteRead(s, u, p)
    \/ \E s \in Slots : ProductDeleteWrite(s)

SpecDelete == Init /\ [][NextDelete]_vars

\* Fulfillment and cancellation of a purchased item; the sellers may
\* request any status.
NextFulfillment ==
    \/ \E s \in Slots : Deliver(s)
    \/ \E s \in Slots, u \in Users, i \in DOMAIN orderItems, to \in FulfillmentStatus :
            SellerStatusRead(s, u, i, to)
    \/ \E s \in Slots : SellerStatusWrite(s)
    \/ \E s \in Slots, u \in Buyers, i \in DOMAIN orderItems : CompleteRead(s, u, i)
    \/ \E s \in Slots : CompleteWrite(s)
    \/ \E s \in Slots, u \in Buyers, o \in DOMAIN orders : CancelRead(s, u, o)
    \/ \E s \in Slots : CancelWrite(s)

SpecFulfillment == InitPurchased /\ [][NextFulfillment]_vars

\* The state after buyer 2 checked out one unit of product 1 and buyer 3 put
\* one unit of product 2 into the cart.
InitCheckoutReady ==
    LET its == <<[id |-> 1, cartId |-> 2, productId |-> 1, qty |-> 1,
                  priceSnapshot |-> SeedProducts[1].price,
                  price |-> SeedProducts[1].price]>>
    IN  /\ product = Reserve(SeedProducts, SeqToSet(its))
        /\ carts = {2, 3}
        /\ cartItems = {[id |-> 2, cartId |-> 3, productId |-> 2, qty |-> 1,
                         priceSnapshot |-> SeedProducts[2].price]}
        /\ nextCartItemId = 3
        /\ orders = NewOrders(2, its)
        /\ orderItems = NewOrderItems(GroupKeys(its, {}), its, 0)
        /\ reviews = {}
        /\ req = [s \in Slots |-> Idle]
        /\ nreq = 0

\* Checkout, seller transitions, buyer complete and cancellation.
NextLive ==
    \/ \E s \in Slots : Deliver(s)
    \/ \E s \in Slots, u \in Buyers, sel \in {{}} : CheckoutRead(s, u, sel)
    \/ \E s \in Slots : CheckoutTx(s)
    \/ \E s \in Slots, u \in Users, i \in DOMAIN orderItems, to \in SELLER_UPDATE_STATUSES :
            SellerStatusRead(s, u, i, to)
    \/ \E s \in Slots : SellerStatusWrite(s)
    \/ \E s \in Slots, u \in Buyers, i \in DOMAIN orderItems : CompleteRead(s, u, i)
    \/ \E s \in Slots : CompleteWrite(s)
    \/ \E s \in Slots, u \in Buyers, o \in DOMAIN orders : CancelRead(s, u, o)
    \/ \E s \in Slots : CancelWrite(s)

\* The next step of the request in slot s: its pending write or transaction,
\* or the delivery of its answer.
Resume(s) ==
    \/ CheckoutTx(s)
    \/ SellerStatusWrite(s)
    \/ CompleteWrite(s)
    \/ CancelWrite(s)
    \/ Deliver(s)

\* Every await of a handler resumes: the next step of a request is taken if
\* it can be taken again and again.
FairLive == \A s \in Slots : SF_vars(Resume(s))

SpecLive == InitCheckoutReady /\ [][NextLive]_vars /\ FairLive

\* ================================================================ properties
\* Slot s takes a new request of kind op in this step.
Starts(s, op) == req[s].pc = "idle" /\ req'[s].op = op

\* Slot s answers a request of kind op with result in this step.
Answers(s, op, result) ==
    /\ req[s].pc # "done"
    /\ req'[s].op = op /\ req'[s].pc = "done" /\ req'[s].res = result

\* Slot s holds the answer result of a request of kind op.
Answer(s, op, result) == req[s].op = op /\ req[s].pc = "done" /\ req[s].res = result

\* C1: in every reachable state every product has stock >= 0.
C1_StockNonNegative == \A p \in Products : product[p].stock >= 0

\* C2: of two buyers' checkouts racing for the last unit exactly one
\* succeeds and the other answers InsufficientStock: a checkout of a cart that
\* holds one item per product commits its orders only if, when it commits,
\* every such product still has the stock the item asks for.
C2_LastUnitSoldOnce ==
    [][\A s \in Slots :
          (/\ Answers(s, "checkout", "OK")
           /\ \A a, b \in req[s].snap : a.productId = b.productId => a = b)
          => \A it \in req[s].snap : product[it.productId].stock >= it.qty]_vars

\* C3: a checkout whose candidate items include one that fails validation
\* (product inactive, or stock < qty) answers ProductUnavailable or
\* InsufficientStock and changes nothing in the database.
C3_InvalidItemRejectsCheckout ==
    [][\A s \in Slots :
          (/\ Starts(s, "checkout")
           /\ req'[s].user \in carts
           /\ req'[s].sel \subseteq {it.id : it \in CartItemsOf(req'[s].user)}
           /\ \E it \in CartItemsOf(req'[s].user) :
                 /\ req'[s].sel = {} \/ it.id \in req'[s].sel
                 /\ \/ ~product[it.productId].isActive
                    \/ product[it.productId].stock < it.qty)
          => /\ req'[s].pc = "done"
             /\ req'[s].res \in {"ProductUnavailable", "InsufficientStock"}
             /\ UNCHANGED db]_vars

C3_Witness ==
    \E s \in Slots :
        /\ Answer(s, "checkout", "InsufficientStock")
        /\ req[s].sel = {}
        /\ \E it \in CartItemsOf(req[s].user) : product[it.productId].stock < it.qty
        /\ \E it \in CartItemsOf(req[s].user) :
              product[it.productId].isActive /\ product[it.productId].stock >= it.qty
        /\ orders # <<>>

\* C4: whenever order items become CANCELLED, the same step adds their qty
\* to their product's stock and takes it from the product's soldCount.
NewlyCancelled(p) ==
    {i \in DOMAIN orderItems :
        /\ orderItems[i].productId = p
        /\ orderItems[i].status # "CANCELLED"
        /\ orderItems'[i].status = "CANCELLED"}

RECURSIVE SumItemQty(_)
SumItemQty(I) ==
    IF I = {} THEN 0
    ELSE LET i == CHOOSE j \in I : TRUE IN orderItems[i].qty + SumItemQty(I \ {i})

C4_CancelReleasesStock ==
    [][\A p \in Products :
          NewlyCancelled(p) # {} =>
              /\ product'[p].stock = product[p].stock + SumItemQty(NewlyCancelled(p))
              /\ product'[p].soldCount = product[p].soldCount - SumItemQty(NewlyCancelled(p))]_vars

\* C5: cancelOrder called again on an order the first call left REFUNDED with
\* every item CANCELLED is accepted, finds nothing to cancel, answers OK with
\* zero cancelled items, leaves every product and order item as it was and
\* leaves paymentStatus REFUNDED.
FullyCancelled(o) ==
    /\ orders[o].paymentStatus = "REFUNDED"
    /\ \A i \in ItemsOfOrder(o) : orderItems[i].status = "CANCELLED"

C5_CancelIdempotent ==
    [][\A s \in Slots :
          /\ (/\ Starts(s, "cancel")
              /\ req'[s].id \in DOMAIN orders
              /\ orders[req'[s].id].userId = req'[s].user
              /\ FullyCancelled(req'[s].id))
             => (req'[s].pc = "write" /\ req'[s].snap = {} /\ UNCHANGED db)
          /\ (req[s].op = "cancel" /\ req[s].pc = "write" /\ req[s].snap = {}
              /\ req'[s].pc = "done")
             => /\ req'[s].res = "OK" /\ req'[s].n = 0
                /\ product' = product /\ orderItems' = orderItems
                /\ orders'[req[s].id].paymentStatus = "REFUNDED"]_vars

C5_Witness ==
    \E s \in Slots :
        /\ Answer(s, "cancel", "OK") /\ req[s].n = 0
        /\ FullyCancelled(req[s].id)
        /\ \E p \in Products : product[p].stock = p /\ product[p].soldCount = 0
                               /\ \E i \in ItemsOfOrder(req[s].id) : orderItems[i].productId = p

\* C6: a seller transition on an item of the seller's own shop is accepted,
\* and then sets status = to, exactly for NEW->CONFIRMED, CONFIRMED->SHIPPED,
\* NEW->CANCELLED and CONFIRMED->CANCELLED; any other pair answers
\* InvalidTransition and leaves the item as it was.
SellerMoves ==
    {<<"NEW", "CONFIRMED">>, <<"CONFIRMED", "SHIPPED">>,
     <<"NEW", "CANCELLED">>, <<"CONFIRMED", "CANCELLED">>}

OwnItem(u, i) == i \in DOMAIN orderItems /\ ShopOwner(orderItems[i].shopId) = u

C6_SellerTransitionTable ==
    [][\A s \in Slots :
          /\ (Starts(s, "sellerStatus") /\ OwnItem(req'[s].user, req'[s].id))
             => IF <<orderItems[req'[s].id].status, req'[s].to>> \in SellerMoves
                THEN req'[s].pc = "write" /\ UNCHANGED db
                ELSE /\ req'[s].pc = "done" /\ req'[s].res = "InvalidTransition"
                     /\ UNCHANGED db
          /\ (req[s].op = "sellerStatus" /\ req[s].pc = "write" /\ req'[s].pc = "done")
             => /\ req'[s].res = "OK"
                /\ orderItems'[req[s].id].status = req[s].to]_vars

C6_Witness ==
    \E s \in Slots :
        /\ Answer(s, "sellerStatus", "InvalidTransition")
        /\ OwnItem(req[s].user, req[s].id)
        /\ orderItems[req[s].id].status = "SHIPPED" /\ req[s].to = "CANCELLED"

\* C7: for an item read as COMPLETED or CANCELLED, every transition attempt
\* (the owning seller's CONFIRMED, SHIPPED or CANCELLED, the owning buyer's
\* complete) answers InvalidTransition and changes no row.
Terminal(i) == orderItems[i].status \in {"COMPLETED", "CANCELLED"}

C7_TerminalRejectsTransitions ==
    [][\A s \in Slots :
          /\ (/\ Starts(s, "sellerStatus") /\ OwnItem(req'[s].user, req'[s].id)
              /\ Terminal(req'[s].id))
             => Answers(s, "sellerStatus", "InvalidTransition") /\ UNCHANGED db
          /\ (/\ Starts(s, "complete") /\ req'[s].id \in DOMAIN orderItems
              /\ orders[orderItems[req'[s].id].orderId].userId = req'[s].user
              /\ Terminal(req'[s].id))
             => Answers(s, "complete", "InvalidTransition") /\ UNCHANGED db]_vars

C7_Witness ==
    \E s \in Slots :
        /\ Answer(s, "sellerStatus", "InvalidTransition")
        /\ OwnItem(req[s].user, req[s].id)
        /\ orderItems[req[s].id].status = "COMPLETED"

\* C8: once an order item is COMPLETED or CANCELLED its status never changes.
C8_TerminalStatusIsFinal ==
    [][\A i \in DOMAIN orderItems :
          Terminal(i) => orderItems'[i].status = orderItems[i].status]_vars

\* C9: buyer complete answers Forbidden when the caller is not the buyer of
\* the item's order, else InvalidTransition when the item is not read as
\* SHIPPED, both leaving every row as it was; otherwise it is accepted and
\* its write sets that item, and only that item, to COMPLETED.  No step of
\* it changes a product's stock or soldCount.
C9_BuyerComplete ==
    [][\A s \in Slots :
          /\ (Starts(s, "complete") /\ req'[s].id \in DOMAIN orderItems)
             => /\ UNCHANGED db
                /\ IF orders[orderItems[req'[s].id].orderId].userId # req'[s].user
                   THEN Answers(s, "complete", "Forbidden")
                   ELSE IF orderItems[req'[s].id].status # "SHIPPED"
                   THEN Answers(s, "complete", "InvalidTransition")
                   ELSE req'[s].pc = "write"
          /\ (req[s].op = "complete" /\ req[s].pc = "write" /\ req'[s].pc = "done")
             => /\ req'[s].res = "OK"
                /\ product' = product
                /\ orderItems' = [orderItems EXCEPT ![req[s].id].status = "COMPLETED"]]_vars

C9_Witness ==
    \E s \in Slots :
        /\ Answer(s, "complete", "OK")
        /\ orderItems[req[s].id].status = "COMPLETED"
        /\ orders[orderItems[req[s].id].orderId].userId = req[s].user

\* C10: a seller transition by a caller who owns no shop, or whose shop is
\* not the item's shopId, answers Forbidden whatever the requested move, and
\* a seller transition writes an item only for the owner of the item's shop.
C10_SellerOwnsItem ==
    [][\A s \in Slots :
          /\ (/\ Starts(s, "sellerStatus") /\ req'[s].id \in DOMAIN orderItems
              /\ ~OwnItem(req'[s].user, req'[s].id))
             => Answers(s, "sellerStatus", "Forbidden") /\ UNCHANGED db
          /\ (req[s].op = "sellerStatus" /\ req[s].pc = "write" /\ req'[s].pc = "done")
             => /\ OwnItem(req[s].user, req[s].id)
                /\ \A i \in DOMAIN orderItems :
                      i # req[s].id => orderItems'[i] = orderItems[i]]_vars

C10_Witness ==
    \E s \in Slots :
        /\ Answer(s, "sellerStatus", "Forbidden")
        /\ req[s].user \in {ShopOwner(sh) : sh \in Shops}
        /\ ~OwnItem(req[s].user, req[s].id)
        /\ <<orderItems[req[s].id].status, req[s].to>> \notin SellerMoves

\* C11: cancelOrder by the order's buyer, when an item of the order is SHIPPED
\* or COMPLETED, answers OrderNotCancellable and changes nothing: every order
\* item (NEW and CONFIRMED siblings included), every product's stock and
\* soldCount and the order's paymentStatus stay as they were.
OwnOrder(u, o) == o \in DOMAIN orders /\ orders[o].userId = u

HasShippedOrCompleted(o) ==
    \E i \in ItemsOfOrder(o) : orderItems[i].status \in {"SHIPPED", "COMPLETED"}

C11_ShippedOrderNotCancellable ==
    [][\A s \in Slots :
          (/\ Starts(s, "cancel")
           /\ OwnOrder(req'[s].user, req'[s].id)
           /\ HasShippedOrCompleted(req'[s].id))
          => /\ Answers(s, "cancel", "OrderNotCancellable")
             /\ orderItems' = orderItems /\ product' = product /\ orders' = orders
             /\ UNCHANGED db]_vars

C11_Witness ==
    \E s \in Slots :
        /\ Answer(s, "cancel", "OrderNotCancellable")
        /\ \E i, j \in ItemsOfOrder(req[s].id) :
              /\ orderItems[i].status = "SHIPPED"
              /\ orderItems[j].status \in {"NEW", "CONFIRMED"}
        /\ orders[req[s].id].paymentStatus = "PAID"

\* C12: cancelOrder by the order's buyer on an order with no SHIPPED or
\* COMPLETED item is accepted with exactly the items read as NEW or CONFIRMED;
\* its write sets each of them to CANCELLED, adds their qty to their
\* product's stock and takes it from the product's soldCount; every other
\* order item (those already CANCELLED included) is left as it was and
\* contributes nothing to any product.
OpenItems(o) == {i \in ItemsOfOrder(o) : orderItems[i].status \in {"NEW", "CONFIRMED"}}

SnapIds(s) == {it.id : it \in req[s].snap}

C12_CancelReleasesOpenItems ==
    [][\A s \in Slots :
          /\ (/\ Starts(s, "cancel")
              /\ OwnOrder(req'[s].user, req'[s].id)
              /\ ~HasShippedOrCompleted(req'[s].id))
             => /\ req'[s].pc = "write"
                /\ {it.id : it \in req'[s].snap} = OpenItems(req'[s].id)
                /\ UNCHANGED db
          /\ (req[s].op = "cancel" /\ req[s].pc = "write" /\ req'[s].pc = "done")
             => /\ req'[s].res = "OK"
                /\ \A i \in DOMAIN orderItems :
                      IF i \in SnapIds(s)
                      THEN orderItems'[i] = [orderItems[i] EXCEPT !.status = "CANCELLED"]
                      ELSE orderItems'[i] = orderItems[i]
                /\ \A p \in Products :
                      LET I == {i \in SnapIds(s) : orderItems[i].productId = p}
                      IN  /\ product'[p].stock = product[p].stock + SumItemQty(I)
                          /\ product'[p].soldCount = product[p].soldCount - SumItemQty(I)]_vars

C12_Witness ==
    \E s \in Slots :
        /\ Answer(s, "cancel", "OK") /\ req[s].n = 1
        /\ Cardinality(ItemsOfOrder(req[s].id)) = 2
        /\ \A i \in ItemsOfOrder(req[s].id) : orderItems[i].status = "CANCELLED"
        /\ \E i \in ItemsOfOrder(req[s].id) : i \notin SnapIds(s)

\* C13: every cancelOrder that answers OK leaves the order's paymentStatus
\* REFUNDED, also when the call found no item to cancel.
C13_CancelLeavesRefunded ==
    [][\A s \in Slots :
          Answers(s, "cancel", "OK") => orders'[req'[s].id].paymentStatus = "REFUNDED"]_vars

C13_Witness ==
    \E s \in Slots :
        /\ Answer(s, "cancel", "OK") /\ req[s].n = 0
        /\ orders[req[s].id].paymentStatus = "REFUNDED"
        /\ \E i \in ItemsOfOrder(req[s].id) :
              product[orderItems[i].productId].soldCount > 0

\* C14: a checkout that answers OK has created exactly one Order, PAID and of
\* the buyer, per distinct shop among the cart items it processed, and for
\* every processed cart item exactly one OrderItem, NEW, with the item's
\* productId and qty, in the new order of the product's shop; and in every
\* reachable state all OrderItems of one Order carry the same shopId.
NewOrderIds == (DOMAIN orders') \ (DOMAIN orders)

NewItemIds == (DOMAIN orderItems') \ (DOMAIN orderItems)

CommitsCheckout(s) ==
    /\ req[s].op = "checkout" /\ req[s].pc = "tx"
    /\ req'[s].pc = "done" /\ req'[s].res = "OK"

RECURSIVE SumItemAmount(_)
SumItemAmount(I) ==
    IF I = {} THEN 0
    ELSE LET i == CHOOSE j \in I : TRUE
         IN  orderItems[i].qty * orderItems[i].priceSnap + SumItemAmount(I \ {i})

C15_TotalIsSumOfItems ==
    \A o \in DOMAIN orders : orders[o].totalAmount = SumItemAmount(ItemsOfOrder(o))

\* C16: a checkout without selectedItemIds that answers OK lowers the stock
\* of each processed item's product by the item's qty and raises its
\* soldCount by the same qty, leaves every other product's stock and
\* soldCount as they were and leaves the buyer's cart empty; two items of
\* qty 1 from two shops with price snapshots 100 and 200 give two orders
\* with totals 100 and 200.
SnapQty(s, p) == SumQty({it \in req[s].snap : it.productId = p})

C16_WholeCartCheckout ==
    [][\A s \in Slots :
          (CommitsCheckout(s) /\ req[s].sel = {}) =>
             /\ \A p \in Products :
                   /\ product'[p].stock = product[p].stock - SnapQty(s, p)
                   /\ product'[p].soldCount = product[p].soldCount + SnapQty(s, p)
                   /\ SnapQty(s, p) = 0 => product'[p] = product[p]
             /\ \A it \in cartItems' : it.cartId # req[s].user
             /\ ({[productId |-> it.productId, qty |-> it.qty, priceSnapshot |-> it.priceSnapshot]
                      : it \in req[s].snap}
                   = {[productId |-> 1, qty |-> 1, priceSnapshot |-> 100],
                      [productId |-> 2, qty |-> 1, priceSnapshot |-> 200]}
                 /\ Cardinality(req[s].snap) = 2)
                => /\ Cardinality(NewOrderIds) = 2
                   /\ {orders'[o].totalAmount : o \in NewOrderIds} = {100, 200}]_vars

C16_Witness ==
    \E s \in Slots :
        /\ Answer(s, "checkout", "OK") /\ req[s].sel = {} /\ req[s].n = 2
        /\ \A it \in cartItems : it.cartId # req[s].user
        /\ Len(orders) = 2
        /\ {orders[o].totalAmount : o \in DOMAIN orders} = {100, 200}
        /\ product[1].stock = 0 /\ product[1].soldCount = 1
        /\ product[2].stock = 1 /\ product[2].soldCount = 1

\* C17: a checkout with selectedItemIds that answers OK removes from the cart
\* exactly the selected CartItems and creates OrderItems only for them; every
\* other CartItem stays with its productId, qty and priceSnapshot, and the
\* unselected items cause no stock or soldCount change: each product moves
\* by the qty of its selected items only.
C17_SelectedSubsetCheckout ==
    [][\A s \in Slots :
          (CommitsCheckout(s) /\ req[s].sel # {}) =>
             /\ SnapIds(s) = req[s].sel
             /\ cartItems' = {it \in cartItems :
                                 ~(it.cartId = req[s].user /\ it.id \in req[s].sel)}
             /\ Cardinality(NewItemIds) = Cardinality(req[s].sel)
             /\ \A i \in NewItemIds :
                   \E it \in req[s].snap :
                      /\ it.id \in req[s].sel
                      /\ orderItems'[i].productId = it.productId
                      /\ orderItems'[i].qty = it.qty
             /\ \A p \in Products :
                   LET q == SumQty({it \in req[s].snap : it.id \in req[s].sel /\ it.productId = p})
                   IN  /\ product'[p].stock = product[p].stock - q
                       /\ product'[p].soldCount = product[p].soldCount + q
                       /\ q = 0 => product'[p] = product[p]]_vars

C17_Witness ==
    \E s \in Slots :
        /\ Answer(s, "checkout", "OK") /\ req[s].sel # {} /\ req[s].n = 1
        /\ \E it \in CartItemsOf(req[s].user) :
              /\ it.id \notin req[s].sel
              /\ product[it.productId].stock = it.productId
              /\ product[it.productId].soldCount = 0
              /\ orderItems[Len(orderItems)].productId # it.productId

\* C18: a checkout of a buyer who has a cart, called with selectedItemIds of
\* which at least one is not the id of an item of that cart (an id of another
\* buyer's item included), answers InvalidSelection and creates no order,
\* changes no stock and removes no cart item, the valid ids included.
C18_InvalidSelectionRejected ==
    [][\A s \in Slots :
          (/\ Starts(s, "checkout")
           /\ req'[s].user \in carts
           /\ \E i \in req'[s].sel : \A it \in CartItemsOf(req'[s].user) : it.id # i)
          => /\ Answers(s, "checkout", "InvalidSelection")
             /\ orders' = orders /\ orderItems' = orderItems
             /\ product' = product /\ cartItems' = cartItems]_vars

C18_Witness ==
    \E s \in Slots :
        /\ Answer(s, "checkout", "InvalidSelection")
        /\ \E i, j \in req[s].sel :
              /\ \E it \in CartItemsOf(req[s].user) :
                    it.id = i /\ product[it.productId].stock >= it.qty
              /\ \E it \in cartItems : it.id = j /\ it.cartId # req[s].user

\* C19 (as stated): a checkout answers EmptyCart and changes nothing whenever
\* the buyer has no cart or the items to process (the whole cart, or the
\* selected items found in the cart) are none.
C19_EmptyCartWhenNothingToProcess ==
    [][\A s \in Slots :
          (/\ Starts(s, "checkout")
           /\ \/ req'[s].user \notin carts
              \/ CheckoutItems(req'[s].user, req'[s].sel) = {})
          => Answers(s, "checkout", "EmptyCart") /\ UNCHANGED db]_vars

\* C19 (amended): a checkout answers EmptyCart and changes nothing whenever
\* the buyer has no cart, or no ids are selected and the cart holds no item;
\* when ids are selected and none of them is an item of the buyer's cart it
\* answers InvalidSelection, likewise changing nothing.
C19_EmptyCartAmended ==
    [][\A s \in Slots :
          /\ (/\ Starts(s, "checkout")
              /\ \/ req'[s].user \notin carts
                 \/ req'[s].sel = {} /\ CartItemsOf(req'[s].user) = {})
             => Answers(s, "checkout", "EmptyCart") /\ UNCHANGED db
          /\ (/\ Starts(s, "checkout")
              /\ req'[s].user \in carts
              /\ req'[s].sel # {}
              /\ CheckoutItems(req'[s].user, req'[s].sel) = {})
             => Answers(s, "checkout", "InvalidSelection") /\ UNCHANGED db]_vars

C19_Witness ==
    \E s \in Slots :
        /\ Answer(s, "checkout", "EmptyCart")
        /\ req[s].user \in carts
        /\ req[s].sel = {}
        /\ CartItemsOf(req[s].user) = {}
        /\ \E o \in DOMAIN orders : orders[o].userId = req[s].user

\* C20: a checkout whose transaction fails at any of its steps (an order or
\* order-item creation, a stock update, the cart deletion, the commit) answers
\* Failed and leaves the committed state as it was before the step: no Order,
\* no OrderItem, no stock or soldCount change and no cart deletion.
C20_FailedCheckoutRollsBack ==
    [][\A s \in Slots :
          (req[s].op = "checkout" /\ req[s].pc = "tx" /\ req'[s].pc = "done")
          => \/ req'[s].res = "OK"
             \/ /\ req'[s].res = "Failed"
                /\ orders' = orders /\ orderItems' = orderItems
                /\ product' = product /\ cartItems' = cartItems
                /\ UNCHANGED db]_vars

C20_Witness ==
    \E s \in Slots :
        /\ Answer(s, "checkout", "Failed")
        /\ Cardinality(req[s].snap) = 2
        /\ \A it \in req[s].snap : \E c \in CartItemsOf(req[s].user) : c.id = it.id
        /\ orders = <<>> /\ orderItems = <<>>
        /\ \A p \in Products : product[p].stock = p /\ product[p].soldCount = 0

\* C21: in every reachable state any two distinct Orders have different
\* codes, also orders of different shops created by one checkout and orders
\* created by checkouts of different buyers in the same millisecond.
C21_OrderCodesDistinct ==
    \A o1, o2 \in DOMAIN orders : o1 # o2 => orders[o1].code # orders[o2].code

\* C22: two transition requests racing on one order item are serialized: a
\* seller transition or buyer complete that answers OK is legal from the
\* status the item has when its write commits (the loser of a race is
\* judged against the status the winner wrote), on orders no cancelOrder
\* has touched.
C22_TransitionsSerialized ==
    [][\A s \in Slots :
          (/\ req[s].op \in {"sellerStatus", "complete"}
           /\ req[s].pc = "write" /\ req'[s].pc = "done" /\ req'[s].res = "OK"
           /\ orders[orderItems[req[s].id].orderId].paymentStatus = "PAID")
          => IF req[s].op = "sellerStatus"
             THEN <<orderItems[req[s].id].status, req[s].to>> \in SellerMoves
             ELSE orderItems[req[s].id].status = "SHIPPED"]_vars

\* C23: under any interleaving of cancelOrder calls with each other and with
\* seller transitions, each order item's qty is given back to its product's
\* stock at most once and never for an item that is SHIPPED: the qty given
\* back to a product so far never exceeds the qty of its order items that
\* are not SHIPPED.
InitialStock(p) == p

ItemsOfProduct(p) == {i \in DOMAIN orderItems : orderItems[i].productId = p}

Released(p) == product[p].stock - InitialStock(p) + SumItemQty(ItemsOfProduct(p))

C23_ReleasedAtMostOnce ==
    \A p \in Products :
        Released(p) <= SumItemQty({i \in ItemsOfProduct(p) : orderItems[i].status # "SHIPPED"})

\* C24: in every reachable state every product has soldCount >= 0.
C24_SoldCountNonNegative == \A p \in Products : product[p].soldCount >= 0

\* C25: a buyer's cart holds at most one CartItem per product (repeated adds
\* merge into the existing item instead of creating a second one).
C25_OneItemPerProduct ==
    \A it1 \in cartItems, it2 \in cartItems :
        (it1.cartId = it2.cartId /\ it1.productId = it2.productId) => it1.id = it2.id

\* The CartItem an addItem or updateItem request at its write step stores.
StoredItemId(s) ==
    LET w == CHOOSE x \in req[s].snap : TRUE
    IN  IF w.id # 0 THEN w.id ELSE nextCartItemId

\* C26: addItem answers ProductUnavailable for an inactive product and
\* InsufficientStock when the existing qty plus the added qty exceeds the
\* stock, updateItem answers likewise when the new qty exceeds the stock; a
\* failed request leaves the cart items unchanged, and a successful one stores
\* a qty that is at least 1 and at most the product's stock at that moment.
C26_CartQtyWithinStock ==
    [][\A s \in Slots :
          /\ \A u \in Buyers, p \in Products, q \in Qtys :
                (Starts(s, "addItem") /\ req'[s].user = u /\ req'[s].id = p /\ req'[s].qty = q)
                => /\ ~product[p].isActive => Answers(s, "addItem", "ProductUnavailable")
                   /\ (product[p].isActive /\ ExistingQty(u, p) + q > product[p].stock)
                         => Answers(s, "addItem", "InsufficientStock")
          /\ \A u \in Buyers, i \in CartItemIds, q \in Qtys :
                (Starts(s, "updateItem") /\ req'[s].user = u /\ req'[s].id = i
                   /\ req'[s].qty = q /\ \E it \in CartItemsOf(u) : it.id = i)
                => LET it == CHOOSE x \in cartItems : x.id = i
                   IN  /\ ~product[it.productId].isActive
                             => Answers(s, "updateItem", "ProductUnavailable")
                       /\ (product[it.productId].isActive /\ q > product[it.productId].stock)
                             => Answers(s, "updateItem", "InsufficientStock")
          /\ (req'[s].op \in {"addItem", "updateItem"} /\ req'[s].pc = "done"
                 /\ req[s].pc # "done" /\ req'[s].res # "OK")
                => cartItems' = cartItems
          /\ (req[s].op \in {"addItem", "updateItem"} /\ req[s].pc = "write"
                 /\ req'[s].pc = "done" /\ req'[s].res = "OK")
                => \A it \in cartItems' :
                       it.id = StoredItemId(s)
                       => it.qty >= 1 /\ it.qty <= product'[it.productId].stock]_vars

\* C27: an Order, once created, keeps its buyer, code, totalAmount and
\* addressSnapshot (and is never removed); only its paymentStatus may change.
C27_OrderImmutable ==
    [][\A o \in DOMAIN orders :
          /\ o \in DOMAIN orders'
          /\ orders'[o].userId = orders[o].userId
          /\ orders'[o].code = orders[o].code
          /\ orders'[o].totalAmount = orders[o].totalAmount
          /\ orders'[o].addressSnap = orders[o].addressSnap]_vars

\* A refunded order (its paymentStatus was changed by a cancellation) that
\* still carries the total of its items, next to a later order of the buyer.
C27_Witness ==
    \E o \in DOMAIN orders, o2 \in DOMAIN orders :
        /\ o < o2
        /\ orders[o].paymentStatus = "REFUNDED"
        /\ orders[o].totalAmount = SumItemAmount(ItemsOfOrder(o))
        /\ orders[o].totalAmount > 0
        /\ orders[o].addressSnap \in Addresses

\* C28: cancelOrder on an order id that does not exist, or on an order of
\* another buyer, answers NotFound and changes no row; a cancellation that
\* writes is always one of the order's own buyer.
C28_CancelForeignOrderNotFound ==
    [][\A s \in Slots :
          /\ (Starts(s, "cancel") /\ ~OwnOrder(req'[s].user, req'[s].id))
                => Answers(s, "cancel", "NotFound") /\ UNCHANGED db
          /\ (req[s].op = "cancel" /\ req[s].pc = "write" /\ req'[s].pc = "done")
                => OwnOrder(req[s].user, req[s].id)]_vars

\* A buyer was answered NotFound for another buyer's paid order whose items
\* are all still NEW and whose stock is still reserved.
C28_Witness ==
    \E s \in Slots :
        /\ Answer(s, "cancel", "NotFound")
        /\ req[s].id \in DOMAIN orders
        /\ orders[req[s].id].userId # req[s].user
        /\ orders[req[s].id].paymentStatus = "PAID"
        /\ ItemsOfOrder(req[s].id) # {}
        /\ \A i \in ItemsOfOrder(req[s].id) :
               /\ orderItems[i].status = "NEW"
               /\ product[orderItems[i].productId].stock
                     < InitialStock(orderItems[i].productId)

\* The cart items of buyers other than u.
ForeignItems(u) == {it \in cartItems : it.cartId # u}

\* C30: updateItem and removeItem called with the id of an item that is not
\* in the caller's cart answer NotFound and leave every item unchanged; the
\* write of an updateItem, removeItem or clear request changes or removes
\* only items of the caller's cart, and clear removes all of those.
C30_CartOwnership ==
    [][\A s \in Slots :
          /\ ((Starts(s, "updateItem") \/ Starts(s, "removeItem"))
                 /\ ~\E it \in CartItemsOf(req'[s].user) : it.id = req'[s].id)
                => /\ req'[s].pc = "done" /\ req'[s].res = "NotFound"
                   /\ cartItems' = cartItems
          /\ (req[s].op \in {"updateItem", "removeItem", "clear"}
                 /\ req[s].pc = "write" /\ req'[s].pc = "done")
                => /\ ForeignItems(req[s].user) \subseteq cartItems'
                   /\ \A it \in cartItems' \ cartItems : it.cartId = req[s].user
                   /\ req[s].op = "clear" => cartItems' = ForeignItems(req[s].user)]_vars

\* A buyer who has an item in the cart was answered NotFound for removing
\* an item of another buyer's cart, which is still there.
C30_Witness ==
    \E s \in Slots :
        /\ Answer(s, "removeItem", "NotFound")
        /\ CartItemsOf(req[s].user) # {}
        /\ \E it \in ForeignItems(req[s].user) : it.id = req[s].id

\* C29: a review of (buyer, product) is created or updated only in a state
\* where the buyer has a COMPLETED item of that product; a request made
\* without one is rejected and stores nothing.
C29_ReviewNeedsCompletedItem ==
    [][/\ \A r \in reviews' \ reviews : CompletedItems(r.userId, r.productId) # {}
       /\ \A s \in Slots :
             (Starts(s, "review") /\ CompletedItems(req'[s].user, req'[s].id) = {})
             => /\ req'[s].pc = "done"
                /\ req'[s].res \in {"NotFound", "NotPurchased"}
                /\ reviews' = reviews]_vars

\* C39: every Order's paymentStatus is PAID or REFUNDED, and an order that
\* is REFUNDED stays REFUNDED in every later state.
C39_PaymentStatusPaidOrRefunded ==
    /\ [](\A o \in DOMAIN orders : orders[o].paymentStatus \in {"PAID", "REFUNDED"})
    /\ [][\A o \in DOMAIN orders :
             orders[o].paymentStatus = "REFUNDED"
             => o \in DOMAIN orders' /\ orders'[o].paymentStatus = "REFUNDED"]_vars

\* A second cancellation of an order already REFUNDED was answered, next to
\* an order that is still PAID.
C39_Witness ==
    \E s \in Slots, o \in DOMAIN orders :
        /\ Answer(s, "cancel", "OK") /\ req[s].n = 0
        /\ orders[req[s].id].paymentStatus = "REFUNDED"
        /\ FullyCancelled(req[s].id)
        /\ orders[o].paymentStatus = "PAID"

\* The items of product p that still hold their units (not CANCELLED).
HeldItems(p) == {i \in ItemsOfProduct(p) : orderItems[i].status # "CANCELLED"}

\* C36: conservation of inventory while no seller edits the stock: for each
\* product, stock plus the qty of its order items that are not CANCELLED
\* is the initial stock, and soldCount is that same qty (initially 0).
C36_InventoryConserved ==
    \A p \in Products :
        /\ product[p].stock + SumItemQty(HeldItems(p)) = InitialStock(p)
        /\ product[p].soldCount = SumItemQty(HeldItems(p))

\* C37: an order whose paymentStatus is REFUNDED has all its items CANCELLED.
C37_RefundedOrderAllCancelled ==
    \A o \in DOMAIN orders :
        orders[o].paymentStatus = "REFUNDED"
        => \A i \in ItemsOfOrder(o) : orderItems[i].status = "CANCELLED"

\* C33: every successful cancelOrder response reports cancelledItems equal
\* to the number of items that call moved from NEW or CONFIRMED to
\* CANCELLED, together with paymentStatus REFUNDED, also when nothing was
\* left to cancel.
C33_CancelResponse ==
    [][\A s \in Slots :
          (req[s].op = "cancel" /\ req[s].pc = "write"
             /\ req'[s].pc = "done" /\ req'[s].res = "OK")
          => /\ req'[s].n = Cardinality({i \in DOMAIN orderItems :
                                 /\ orderItems[i].status \in {"NEW", "CONFIRMED"}
                                 /\ orderItems'[i].status = "CANCELLED"})
             /\ req'[s].to = "REFUNDED"]_vars

\* C38: every CartItem a whole-cart checkout removes has an OrderItem created
\* by that checkout with the same product and the qty the cart item held
\* when it was removed.
C38_RemovedItemsWereOrdered ==
    [][\A s \in Slots :
          (CommitsCheckout(s) /\ req[s].sel = {})
          => \A it \in cartItems \ cartItems' :
                 \E i \in NewItemIds :
                     /\ orderItems'[i].productId = it.productId
                     /\ orderItems'[i].qty = it.qty]_vars

\* The stock and soldCount of every product are the same after the step.
LedgerUnchanged ==
    \A p \in Products :
        /\ product'[p].stock = product[p].stock
        /\ product'[p].soldCount = product[p].soldCount

\* C34: every step of an addItem, updateItem, removeItem, clear or list
\* request and of a seller transition to CONFIRMED or SHIPPED leaves each
\* product's stock and soldCount unchanged; stock only goes down in a
\* checkout transaction and only goes up in a cancellation.
C34_OnlyCheckoutAndCancelMoveStock ==
    [][/\ \A s \in Slots :
             (req'[s] # req[s]
                /\ \/ req'[s].op \in {"addItem", "updateItem", "removeItem", "clear", "list"}
                   \/ req'[s].op = "sellerStatus" /\ req'[s].to \in {"CONFIRMED", "SHIPPED"})
             => LedgerUnchanged
       /\ \A p \in Products :
             /\ product'[p].stock < product[p].stock
                  => \E s \in Slots : CommitsCheckout(s)
             /\ product'[p].stock > product[p].stock
                  => \E s \in Slots : req[s].op = "cancel" /\ req[s].pc = "write"
                                         /\ req'[s].pc = "done"]_vars

\* A seller's SHIPPED update was answered while the buyer's cart holds an
\* item again and the shipped unit is still reserved.
C34_Witness ==
    \E s \in Slots :
        /\ Answer(s, "sellerStatus", "OK") /\ req[s].to = "SHIPPED"
        /\ orderItems[req[s].id].status = "SHIPPED"
        /\ product[orderItems[req[s].id].productId].stock
              = InitialStock(orderItems[req[s].id].productId) - orderItems[req[s].id].qty
        /\ cartItems # {}

\* C35: a product is never removed while it has an order item in NEW,
\* CONFIRMED or SHIPPED (it is set inactive instead), so every such order
\* item references a product that exists.
C35_ActiveItemsKeepTheirProduct ==
    /\ [](\A i \in DOMAIN orderItems :
             orderItems[i].status \in {"NEW", "CONFIRMED", "SHIPPED"}
             => ~product[orderItems[i].productId].deleted)
    /\ [][\A p \in Products :
             (~product[p].deleted /\ product'[p].deleted) => ActiveOrderItems(p) = {}]_vars

\* The ids an order item can have, and the status of item i ("none" while
\* the item does not exist).
ItemIds == 1..MaxAccepted

StatusOf(i) == IF i \in DOMAIN orderItems THEN orderItems[i].status ELSE "none"

\* C32: an order item becomes COMPLETED only by a buyer complete request; a
\* seller request for status COMPLETED or NEW is rejected by validation,
\* whatever the caller and the item; and an item that is COMPLETED was
\* CONFIRMED before it was SHIPPED and SHIPPED before it was COMPLETED
\* (every item is created NEW).
C32_CompletedOnlyByBuyer ==
    /\ [][\A s \in Slots :
             /\ (Starts(s, "sellerStatus") /\ req'[s].to \in {"COMPLETED", "NEW"})
                   => Answers(s, "sellerStatus", "ValidationError") /\ UNCHANGED db
             /\ (req[s].op = "sellerStatus" /\ req[s].pc = "write")
                   => req[s].to \in SELLER_UPDATE_STATUSES]_vars
    /\ [][\A i \in DOMAIN orderItems :
             (orderItems[i].status # "COMPLETED" /\ orderItems'[i].status = "COMPLETED")
             => \E s \in Slots : /\ req[s].op = "complete" /\ req[s].pc = "write"
                                  /\ req[s].id = i /\ req'[s].pc = "done"]_vars
    /\ [][\A i \in (DOMAIN orderItems') \ (DOMAIN orderItems) :
             orderItems'[i].status = "NEW"]_vars
    /\ \A i \in ItemIds :
          /\ [](StatusOf(i) # "SHIPPED") => [](StatusOf(i) # "COMPLETED")
          /\ [](StatusOf(i) # "CONFIRMED") => [](StatusOf(i) # "SHIPPED")

\* The buyer's complete request was answered OK and the item is COMPLETED.
C32_Witness ==
    \E s \in Slots :
        /\ Answer(s, "complete", "OK")
        /\ orderItems[req[s].id].status = "COMPLETED"
        /\ orders[orderItems[req[s].id].orderId].userId = req[s].user

\* Slot s holds a request that was started and is not answered yet.
Pending(s) == req[s].pc \notin {"idle", "done"}

\* C31: every checkout, seller transition, buyer complete and cancelOrder
\* request that was started is eventually answered, whatever the other
\* requests do, and it is answered once: an answer is never replaced, it
\* only leaves its slot when it is delivered.
C31_EveryRequestAnswered ==
    /\ \A s \in Slots :
          (Pending(s) /\ req[s].op \in {"checkout", "sellerStatus", "complete", "cancel"})
              ~> (req[s].pc = "done")
    /\ [][\A s \in Slots :
             req[s].pc = "done" => (req'[s] = req[s] \/ req'[s] = Idle)]_vars

\* A checkout was answered while the request in the other slot is still
\* waiting for its write.
C31_Witness ==
    \E s \in Slots, t \in Slots :
        /\ Answer(s, "checkout", "OK")
        /\ Pending(t)
        /\ req[t].op \in {"sellerStatus", "complete", "cancel"}

====
